---- MODULE Spec2Model ----
(***************************************************************************)
(* A model of yeelight_ambilight/main.py: the CommandPayload counter and   *)
(* encoder, LampController's one-shot socket, ScreenController's colour    *)
(* reduction and the Ambilight loop with its controlling thread.           *)
(*                                                                         *)
(* Threads: Main (the thread that constructs Ambilight and calls its       *)
(* methods) and the workers created by Ambilight.start.  Every thread that  *)
(* sends a command walks through the same steps: CommandPayload.__new__    *)
(* (the shared counter is written), the generated __init__ (the counter is *)
(* read), and LampController.send_command: the socket is created, the      *)
(* thread waits in connect, encodes the command and waits in send, and the *)
(* socket is closed.                                                       *)
(***************************************************************************)
EXTENDS Integers, Sequences, FiniteSets, TLC

(* ------------------------------ bounds -------------------------------- *)

\* Number of worker threads Ambilight.start may create in one run.
MaxWorkers == 2

\* Number of commands (one socket each) constructed in one run.
MaxCmds == 3

\* The last tick of the clock.
MaxTime == 5

\* Number of direct calls of convert_rgb in one run: enough to fill the
\* cache and go on past it.
MaxRgbCalls == 131

(* ------------------------- program constants -------------------------- *)

\* CommandPayload._next_id's class-level default.
NextIdDefault == -1

\* The default duration argument of bg_set_rgb and bg_set_bright.
DefaultDuration == 500

\* The default effect argument of bg_set_rgb and bg_set_bright.
DefaultEffect == "smooth"

\* The number of results lru_cache keeps when it is given no maxsize.
RgbCacheMaxSize == 128

\* Ambilight's refresh_rate, in ticks of the clock.
refresh_rate == 2

(* ------------------------------ inputs -------------------------------- *)

Main == 0
Workers == 1..MaxWorkers
Threads == {Main} \cup Workers

\* Values passed as initial_brightness.
InitialBrightnessInputs == {80, 100}

\* Values passed to set_brightness by the controlling thread: any int is
\* accepted, here one above the lamp's range of 0..100.
BrightnessInputs == {150}

\* Colours passed to send_set_color_command by the controlling thread: any
\* ints are accepted, here two colours and one triple outside 0..255.
ColorInputs == {<<255, 0, 1>>, <<0, 128, 255>>, <<300, -1, 2>>}

\* The number of leading calls of convert_rgb that take distinct colours one
\* after the other, leaving one free entry in the cache.
RgbSweep == RgbCacheMaxSize - 1

\* The colours the n-th direct call of convert_rgb may be given: a sweep of
\* distinct colours first, then any of the colours of send_set_color_command
\* or the first colour of the sweep.
RgbInputs(n) ==
    IF n <= RgbSweep
    THEN {<<0, n \div 256, n % 256>>}
    ELSE ColorInputs \cup {<<0, 0, 1>>}

\* What screen_sample.getcolors returns: lists of (count, (r, g, b)); the
\* empty list is the snapshot of a zero-area region.
ScreenSamples ==
    { <<>>,
      << <<3, <<255, 0, 0>> >>, <<1, <<0, 0, 0>> >> >> }

\* What socket.send may return for a buffer of n bytes: the number of bytes
\* the transport accepted, which may be fewer than offered.
SendCounts(n) == {n \div 2, n}

(* ------------------------------- state -------------------------------- *)

VARIABLES
    next_id,    \* CommandPayload._next_id
    running,    \* Ambilight._running
    pc,         \* each thread's position
    call,       \* the Ambilight method the controlling thread is in
    cmd,        \* each thread's CommandPayload (under construction or built)
    sample,     \* each worker's screen_colors
    color,      \* each worker's color
    tcp,        \* each thread's tcp_socket, with what was written to it
    exc,        \* the exception a thread is raising or was terminated by
    conns,      \* the command of every socket created so far, in order
    initial_brightness,  \* the argument the constructor is called with
    rgb_cache,  \* the cache lru_cache keeps for convert_rgb
    now,        \* what time.time() returns
    start_time, \* each worker's start_time
    wake,       \* when each worker's time.sleep is over
    rgb_log     \* the direct calls of convert_rgb: arguments, result, hit

vars == <<next_id, running, pc, call, cmd, sample, color, tcp, exc, conns,
          initial_brightness, rgb_cache, now, start_time, wake,
          rgb_log>>

NoCmd == [id |-> -1, method |-> "", params |-> <<>>]
NoColor == <<>>
NoSocket == [state |-> "none", data |-> "", sent |-> 0]
NoTime == -1

(* --------------------------- CommandPayload --------------------------- *)

\* CommandPayload.__new__ stepping the counter by two.
increment_next_id_by_two(n) == n + 2

\* CommandPayload.__new__: the counter after one more construction.
increment_next_id(n) == n + 1

\* The function lru_cache wraps: the body of convert_rgb.
convert_rgb_wrapped(r, g, b) == (r * 65536) + (g * 256) + b

\* The positions of key in a cache: a sequence of <<key, result>>, the least
\* recently used first.
CacheHits(cache, key) == {i \in 1..Len(cache) : cache[i][1] = key}

\* A cache without its i-th entry.
CacheWithout(cache, i) ==
    SubSeq(cache, 1, i - 1) \o SubSeq(cache, i + 1, Len(cache))

\* convert_rgb answering from the cache whatever the arguments are: the
\* result used last is returned for any key once the cache holds one.
convert_rgb_stale(cache, r, g, b) ==
    IF cache # <<>>
    THEN [result |-> cache[Len(cache)][2], cache |-> cache]
    ELSE [result |-> convert_rgb_wrapped(r, g, b),
          cache |-> <<<<<<r, g, b>>, convert_rgb_wrapped(r, g, b)>>>>]

\* convert_rgb as decorated: the result, and the cache after the call.  A
\* key found in the cache is answered with the result stored and becomes
\* the most recently used; a key not found is computed and stored, and the
\* least recently used entry is dropped when the cache is full.
convert_rgb(cache, r, g, b) ==
    LET key == <<r, g, b>>
        hits == CacheHits(cache, key)
    IN  IF hits # {}
        THEN LET i == CHOOSE i \in hits : TRUE
             IN  [result |-> cache[i][2],
                  cache |-> Append(CacheWithout(cache, i), cache[i])]
        ELSE LET result == convert_rgb_wrapped(r, g, b)
                 kept == IF Len(cache) >= RgbCacheMaxSize
                         THEN Tail(cache) ELSE cache
             IN  [result |-> result,
                  cache |-> Append(kept, <<key, result>>)]

\* The arguments bg_set_rgb hands to cls(...); id is assigned by __init__.
bg_set_rgb(cache, r, g, b) ==
    [id |-> -1, method |-> "bg_set_rgb",
     params |-> <<convert_rgb(cache, r, g, b).result, DefaultEffect,
                  DefaultDuration>>]

\* bg_set_bright sending full brightness whatever value it is given.
bg_set_bright_full(value) ==
    [id |-> -1, method |-> "bg_set_bright",
     params |-> <<100, DefaultEffect, DefaultDuration>>]

bg_set_bright(value) ==
    [id |-> -1, method |-> "bg_set_bright",
     params |-> <<value, DefaultEffect, DefaultDuration>>]

\* json.dumps of an int or of a str without characters to escape: TLC's
\* ToString writes an integer in decimal and a string between double quotes.
json_dumps_scalar(v) == ToString(v)

RECURSIVE json_dumps_items(_, _)
json_dumps_items(xs, i) ==
    IF i > Len(xs) THEN ""
    ELSE (IF i > 1 THEN ", " ELSE "") \o json_dumps_scalar(xs[i])
         \o json_dumps_items(xs, i + 1)

\* json.dumps of a tuple: a JSON array.
json_dumps_list(xs) == "[" \o json_dumps_items(xs, 1) \o "]"

\* dataclasses.asdict(self): every field of the dataclass in declaration
\* order, _next_id included (read through the instance, it is the class
\* attribute's current value).
asdict(c, nid) ==
    << <<"id", json_dumps_scalar(c.id)>>,
       <<"method", json_dumps_scalar(c.method)>>,
       <<"params", json_dumps_list(c.params)>>,
       <<"_next_id", json_dumps_scalar(nid)>> >>

RECURSIVE json_dumps_members(_, _)
json_dumps_members(d, i) ==
    IF i > Len(d) THEN ""
    ELSE (IF i > 1 THEN ", " ELSE "")
         \o json_dumps_scalar(d[i][1]) \o ": " \o d[i][2]
         \o json_dumps_members(d, i + 1)

\* CommandPayload.as_bytes, with the value of CommandPayload._next_id at the
\* time of the call.
as_bytes(c, nid) == "{" \o json_dumps_members(asdict(c, nid), 1) \o "}" \o "\r\n"

(* -------------------------- ScreenController -------------------------- *)

RECURSIVE sum_channel(_, _, _)
\* The for loop of calculate_average_rgb for one channel k: the count of
\* each entry is discarded.
sum_channel(colors, k, i) ==
    IF i > Len(colors) THEN 0
    ELSE colors[i][2][k] + sum_channel(colors, k, i + 1)

\* calculate_average_rgb: pixels_count is len(colors); with no entry the
\* floor divisions raise ZeroDivisionError.
calculate_average_rgb(colors) ==
    LET pixels_count == Len(colors)
    IN  IF pixels_count = 0
        THEN [exc |-> "ZeroDivisionError", rgb |-> NoColor]
        ELSE [exc |-> "none",
              rgb |-> << sum_channel(colors, 1, 1) \div pixels_count,
                         sum_channel(colors, 2, 1) \div pixels_count,
                         sum_channel(colors, 3, 1) \div pixels_count >>]

(* ------------------------------- Init --------------------------------- *)

Init ==
    /\ next_id = NextIdDefault
    /\ running = FALSE
    /\ pc = [t \in Threads |-> IF t = Main THEN "boot" ELSE "unborn"]
    /\ call = "none"
    /\ cmd = [t \in Threads |-> NoCmd]
    /\ sample = [t \in Threads |-> <<>>]
    /\ color = [t \in Threads |-> NoColor]
    /\ tcp = [t \in Threads |-> NoSocket]
    /\ exc = [t \in Threads |-> "none"]
    /\ conns = <<>>
    /\ initial_brightness \in InitialBrightnessInputs
    /\ rgb_cache = <<>>
    /\ now = 0
    /\ start_time = [t \in Threads |-> NoTime]
    /\ wake = [t \in Threads |-> NoTime]
    /\ rgb_log = <<>>

(* ------------------------------ helpers ------------------------------- *)

\* Threads that have begun an operation that constructs a command and have
\* not yet created its socket.
BeforeSocket == {t \in Threads : pc[t] \in {"sample", "new", "init", "send"}}

\* Whether one more command may be begun within MaxCmds.
Budget == Len(conns) + Cardinality(BeforeSocket) < MaxCmds

\* A function of the threads with thread t's entry reset to v when t ends at
\* position p: the frames of a worker ended by an exception are gone, and its
\* locals with them.
Dropped(f, t, p, v) == IF p = "raised" THEN [f EXCEPT ![t] = v] ELSE f

\* Who a thread's command is sent for.
Origin(t) ==
    IF t = Main THEN (IF call = "__init__" THEN "ctor" ELSE "user") ELSE "loop"

\* send_command's exception caught inside the constructor: the controlling
\* thread goes on as after a command that was sent.
AfterSendCommand_caught(t, e) ==
    IF t = Main THEN "return" ELSE (IF e = "none" THEN "sleep" ELSE "raised")

\* Where a thread continues when send_command returns (e = "none") or
\* raises e.  Nothing in Ambilight or in process catches an exception: in a
\* worker it ends the thread, in the constructor it ends the construction,
\* and out of a method it reaches the method's caller ("return": the method
\* is left, with a value or with the exception).
AfterSendCommand(t, e) ==
    IF t = Main
    THEN (IF e # "none" /\ call = "__init__" THEN "aborted" ELSE "return")
    ELSE (IF e = "none" THEN "sleep" ELSE "raised")

(* ------------------------ the controlling thread ---------------------- *)

\* Ambilight.__init__ up to the call of CommandPayload.bg_set_bright in
\* set_brightness(initial_brightness).
Construct ==
    /\ pc[Main] = "boot"
    /\ running' = FALSE
    /\ call' = "__init__"
    /\ cmd' = [cmd EXCEPT ![Main] = bg_set_bright(initial_brightness)]
    /\ pc' = [pc EXCEPT ![Main] = "new"]
    /\ UNCHANGED <<next_id, sample, color, tcp, exc, conns,
                   initial_brightness, rgb_cache, now, start_time, wake,
                   rgb_log>>

\* Ambilight.set_brightness(value), called on the constructed object.
CallSetBrightness ==
    /\ pc[Main] = "idle"
    /\ Budget
    /\ \E value \in BrightnessInputs :
          cmd' = [cmd EXCEPT ![Main] = bg_set_bright(value)]
    /\ call' = "set_brightness"
    /\ pc' = [pc EXCEPT ![Main] = "new"]
    /\ UNCHANGED <<next_id, running, sample, color, tcp, exc, conns,
                   initial_brightness, rgb_cache, now, start_time, wake,
                   rgb_log>>

\* Ambilight.send_set_color_command(color), called on the constructed object.
CallSendSetColor ==
    /\ pc[Main] = "idle"
    /\ Budget
    /\ \E c \in ColorInputs :
          /\ color' = [color EXCEPT ![Main] = c]
          /\ cmd' = [cmd EXCEPT ![Main] =
                       bg_set_rgb(rgb_cache, c[1], c[2], c[3])]
          /\ rgb_cache' = convert_rgb(rgb_cache, c[1], c[2], c[3]).cache
    /\ call' = "send_set_color_command"
    /\ pc' = [pc EXCEPT ![Main] = "new"]
    /\ UNCHANGED <<next_id, running, sample, tcp, exc, conns,
                   initial_brightness, now, start_time, wake,
                   rgb_log>>

\* The constructor or a method has been left: its caller goes on, and the
\* method's locals (the command, the socket) and its result are dropped.
Return ==
    /\ pc[Main] \in {"return", "started", "skipped"}
    /\ pc' = [pc EXCEPT ![Main] = "idle"]
    /\ call' = "none"
    /\ cmd' = [cmd EXCEPT ![Main] = NoCmd]
    /\ color' = [color EXCEPT ![Main] = NoColor]
    /\ tcp' = [tcp EXCEPT ![Main] = NoSocket]
    /\ exc' = [exc EXCEPT ![Main] = "none"]
    /\ UNCHANGED <<next_id, running, sample, conns,
                   initial_brightness, rgb_cache, now, start_time, wake,
                   rgb_log>>

\* The thread Ambilight.start creates next.
NextWorker == CHOOSE w \in Workers :
                  pc[w] = "unborn" /\ \A v \in Workers : v < w => pc[v] # "unborn"

\* Ambilight.start with the guard removed: a worker is created on every call.
start_unguarded ==
    /\ pc[Main] = "idle"
    /\ \E w \in Workers : pc[w] = "unborn"
    /\ running' = TRUE
    /\ pc' = [pc EXCEPT ![NextWorker] = "loop", ![Main] = "started"]
    /\ call' = "start"
    /\ UNCHANGED <<next_id, cmd, sample, color, tcp, exc, conns,
                   initial_brightness, rgb_cache, now, start_time, wake,
                   rgb_log>>

\* Ambilight.start: nothing when _running is set ("skipped": the body of the
\* if statement is not entered); otherwise set it and start a thread on
\* process ("started").
start ==
    /\ pc[Main] = "idle"
    /\ IF ~running
       THEN /\ \E w \in Workers : pc[w] = "unborn"
            /\ running' = TRUE
            /\ pc' = [pc EXCEPT ![NextWorker] = "loop", ![Main] = "started"]
       ELSE /\ running' = running
            /\ pc' = [pc EXCEPT ![Main] = "skipped"]
    /\ call' = "start"
    /\ UNCHANGED <<next_id, cmd, sample, color, tcp, exc, conns,
                   initial_brightness, rgb_cache, now, start_time, wake,
                   rgb_log>>

\* Ambilight.stop.
stop ==
    /\ pc[Main] = "idle"
    /\ running' = FALSE
    /\ UNCHANGED <<next_id, pc, call, cmd, sample, color, tcp, exc, conns,
                   initial_brightness, rgb_cache, now, start_time, wake,
                   rgb_log>>

(* --------------------- sending a command (any thread) ----------------- *)

\* CommandPayload.__new__: the class counter is incremented before the
\* instance exists.
New(t) ==
    /\ pc[t] = "new"
    /\ next_id' = increment_next_id(next_id)
    /\ pc' = [pc EXCEPT ![t] = "init"]
    /\ UNCHANGED <<running, call, cmd, sample, color, tcp, exc, conns,
                   initial_brightness, rgb_cache, now, start_time, wake,
                   rgb_log>>

\* The generated __init__: id's default_factory reads the class counter.
InitId(t) ==
    /\ pc[t] = "init"
    /\ cmd' = [cmd EXCEPT ![t].id = next_id]
    /\ pc' = [pc EXCEPT ![t] = "send"]
    /\ UNCHANGED <<next_id, running, call, sample, color, tcp, exc, conns,
                   initial_brightness, rgb_cache, now, start_time, wake,
                   rgb_log>>

\* LampController.send up to the call of connect: the socket is created and
\* the thread waits in tcp_socket.connect while other threads run.
send(t) ==
    /\ pc[t] = "send"
    /\ conns' = Append(conns, [origin |-> Origin(t), cmd |-> cmd[t]])
    /\ tcp' = [tcp EXCEPT ![t] = [state |-> "open", data |-> "", sent |-> 0]]
    /\ pc' = [pc EXCEPT ![t] = "connecting"]
    /\ UNCHANGED <<next_id, running, call, cmd, sample, color, exc,
                   initial_brightness, rgb_cache, now, start_time, wake,
                   rgb_log>>

\* connect returns or raises.  It is called outside the try statement: when
\* it raises, the generator is left before the try is entered, the finally
\* clause does not run and nothing closes the socket ("refused").  When it
\* returns, send_command's body evaluates payload.as_bytes(), which reads
\* the counter as it is by then, and calls tcp_socket.send once with it; the
\* thread waits in tcp_socket.send.
send_command(t) ==
    /\ pc[t] = "connecting"
    /\ \E e \in {"none", "connect"} :
          LET p == IF e = "none" THEN "sending" ELSE AfterSendCommand(t, e)
          IN  /\ tcp' = [tcp EXCEPT ![t] =
                    IF e = "connect"
                    THEN [state |-> "refused", data |-> "", sent |-> 0]
                    ELSE [state |-> "open",
                          data |-> as_bytes(cmd[t], next_id), sent |-> 0]]
              /\ exc' = [exc EXCEPT ![t] = e]
              /\ pc' = [pc EXCEPT ![t] = p]
              /\ cmd' = Dropped(cmd, t, p, NoCmd)
              /\ sample' = Dropped(sample, t, p, <<>>)
              /\ color' = Dropped(color, t, p, NoColor)
              /\ start_time' = Dropped(start_time, t, p, NoTime)
    /\ UNCHANGED <<next_id, running, call, conns, initial_brightness,
                   rgb_cache, now, wake,
                   rgb_log>>

\* tcp_socket.send reports how many bytes it accepted, or raises; the
\* finally clause of LampController.send closes the socket either way, and
\* the count is returned or the exception goes on to the caller.
close(t) ==
    /\ pc[t] = "sending"
    /\ \E e \in {"none", "send"} :
       \E n \in SendCounts(Len(tcp[t].data)) :
          LET p == AfterSendCommand(t, e)
          IN  /\ e # "none" => n = Len(tcp[t].data)
              /\ tcp' = [tcp EXCEPT ![t] =
                    IF e = "send"
                    THEN [state |-> "closed",
                          data |-> IF p = "raised" THEN "" ELSE tcp[t].data,
                          sent |-> 0]
                    ELSE [state |-> "closed", data |-> tcp[t].data,
                          sent |-> n]]
              /\ exc' = [exc EXCEPT ![t] = e]
              /\ pc' = [pc EXCEPT ![t] = p]
              /\ cmd' = Dropped(cmd, t, p, NoCmd)
              /\ sample' = Dropped(sample, t, p, <<>>)
              /\ color' = Dropped(color, t, p, NoColor)
              /\ start_time' = Dropped(start_time, t, p, NoTime)
    /\ UNCHANGED <<next_id, running, call, conns, initial_brightness,
                   rgb_cache, now, wake,
                   rgb_log>>

(* ----------------------------- the worker ----------------------------- *)

\* Ambilight.process with while True: the flag is not looked at.
Loop_forever(w) ==
    /\ pc[w] = "loop"
    /\ Budget
    /\ pc' = [pc EXCEPT ![w] = "sample"]
    /\ start_time' = [start_time EXCEPT ![w] = now]
    /\ UNCHANGED <<next_id, running, call, cmd, sample, color, tcp, exc,
                   conns, initial_brightness, rgb_cache, now, wake,
                   rgb_log>>

\* Ambilight.process: the while condition, and start_time on entry; when
\* the condition is false process returns and the thread ends.
Loop(w) ==
    /\ pc[w] = "loop"
    /\ IF running
       THEN /\ Budget
            /\ pc' = [pc EXCEPT ![w] = "sample"]
            /\ start_time' = [start_time EXCEPT ![w] = now]
       ELSE /\ pc' = [pc EXCEPT ![w] = "exited"]
            /\ start_time' = [start_time EXCEPT ![w] = NoTime]
    /\ UNCHANGED <<next_id, running, call, cmd, sample, color, tcp, exc,
                   conns, initial_brightness, rgb_cache, now, wake,
                   rgb_log>>

\* Ambilight.get_color, then send_set_color_command up to bg_set_rgb's
\* arguments.
GetColor(w) ==
    /\ pc[w] = "sample"
    /\ \E screen_colors \in ScreenSamples :
          LET avg == calculate_average_rgb(screen_colors)
          IN  /\ sample' = [sample EXCEPT ![w] = screen_colors]
              /\ color' = [color EXCEPT ![w] = avg.rgb]
              /\ IF avg.exc = "none"
                 THEN /\ cmd' = [cmd EXCEPT ![w] =
                                   bg_set_rgb(rgb_cache, avg.rgb[1],
                                              avg.rgb[2], avg.rgb[3])]
                      /\ rgb_cache' = convert_rgb(rgb_cache, avg.rgb[1],
                                                  avg.rgb[2], avg.rgb[3]).cache
                      /\ pc' = [pc EXCEPT ![w] = "new"]
                      /\ exc' = exc
                      /\ start_time' = start_time
                 ELSE /\ cmd' = cmd
                      /\ rgb_cache' = rgb_cache
                      /\ exc' = [exc EXCEPT ![w] = avg.exc]
                      /\ pc' = [pc EXCEPT ![w] = "raised"]
                      /\ start_time' = [start_time EXCEPT ![w] = NoTime]
    /\ UNCHANGED <<next_id, running, call, tcp, conns,
                   initial_brightness, now, wake,
                   rgb_log>>

\* The end of the cycle body without the clock: delta is measured and the
\* sleep, if there is one, is over after some time.
Sleep(w) ==
    /\ pc[w] = "sleep"
    /\ pc' = [pc EXCEPT ![w] = "loop"]
    /\ cmd' = [cmd EXCEPT ![w] = NoCmd]
    /\ sample' = [sample EXCEPT ![w] = <<>>]
    /\ color' = [color EXCEPT ![w] = NoColor]
    /\ tcp' = [tcp EXCEPT ![w] = NoSocket]
    /\ UNCHANGED <<next_id, running, call, exc, conns,
                   initial_brightness, rgb_cache, now, start_time, wake,
                   rgb_log>>

(* ------------------------------ the clock ----------------------------- *)

\* The argument of time.sleep at the end of a cycle that took delta.
sleep_short(delta) == (refresh_rate - delta) \div 2

\* The argument of time.sleep at the end of a cycle that took delta; 0 when
\* the cycle does not sleep.
sleep_for(delta) == IF delta < refresh_rate THEN refresh_rate - delta ELSE 0

\* Time passes: any step of a thread may take any time.
Tick ==
    /\ now < MaxTime
    /\ now' = now + 1
    /\ UNCHANGED <<next_id, running, pc, call, cmd, sample, color, tcp, exc,
                   conns, initial_brightness, rgb_cache, start_time, wake,
                   rgb_log>>

\* The end of the cycle body: delta = time.time() - start_time, and
\* time.sleep(refresh_rate - delta) entered when delta < refresh_rate.
MeasureDelta(w) ==
    /\ pc[w] = "sleep"
    /\ LET delta == now - start_time[w]
       IN  IF delta < refresh_rate
           THEN /\ wake' = [wake EXCEPT ![w] = now + sleep_for(delta)]
                /\ pc' = [pc EXCEPT ![w] = "asleep"]
           ELSE /\ wake' = wake
                /\ pc' = [pc EXCEPT ![w] = "loop"]
    /\ cmd' = [cmd EXCEPT ![w] = NoCmd]
    /\ sample' = [sample EXCEPT ![w] = <<>>]
    /\ color' = [color EXCEPT ![w] = NoColor]
    /\ tcp' = [tcp EXCEPT ![w] = NoSocket]
    /\ UNCHANGED <<next_id, running, call, exc, conns,
                   initial_brightness, rgb_cache, now, start_time,
                   rgb_log>>

\* time.sleep returns: not before the time asked for has passed.
Wake(w) ==
    /\ pc[w] = "asleep"
    /\ now >= wake[w]
    /\ pc' = [pc EXCEPT ![w] = "loop"]
    /\ UNCHANGED <<next_id, running, call, cmd, sample, color, tcp, exc,
                   conns, initial_brightness, rgb_cache, now, start_time,
                   wake,
                   rgb_log>>

(* ----------------------- convert_rgb called directly ------------------ *)

\* CommandPayload.convert_rgb(r, g, b), a static method, called on its own:
\* the cache is looked up and updated, and the call is logged with what it
\* returned and whether the cache held its arguments (cache_info().hits).
CallConvertRgb ==
    /\ Len(rgb_log) < MaxRgbCalls
    /\ \E c \in RgbInputs(Len(rgb_log) + 1) :
          LET call_ == convert_rgb(rgb_cache, c[1], c[2], c[3])
          IN  /\ rgb_cache' = call_.cache
              /\ rgb_log' = Append(rgb_log,
                                   [key |-> c, result |-> call_.result,
                                    hit |-> CacheHits(rgb_cache, c) # {}])
    /\ UNCHANGED <<next_id, running, pc, call, cmd, sample, color, tcp, exc,
                   conns, initial_brightness, now, start_time, wake>>

(* --------------------------- specifications --------------------------- *)

Next ==
    \/ Construct
    \/ CallSetBrightness
    \/ Return
    \/ start
    \/ stop
    \/ \E t \in Threads : New(t)
    \/ \E t \in Threads : InitId(t)
    \/ \E t \in Threads : send(t)
    \/ \E t \in Threads : send_command(t)
    \/ \E t \in Threads : close(t)
    \/ \E w \in Workers : Loop(w)
    \/ \E w \in Workers : GetColor(w)
    \/ \E w \in Workers : Sleep(w)

Spec == Init /\ [][Next]_vars

\* One thread only: the controlling thread constructs the object and calls
\* its methods one after the other; no worker is started.
NextSeq ==
    \/ Construct
    \/ CallSetBrightness
    \/ CallSendSetColor
    \/ Return
    \/ New(Main)
    \/ InitId(Main)
    \/ send(Main)
    \/ send_command(Main)
    \/ close(Main)

SpecSeq == Init /\ [][NextSeq]_vars

\* A step of the thread running process.
WorkerStep(w) ==
    \/ Loop(w)
    \/ GetColor(w)
    \/ New(w)
    \/ InitId(w)
    \/ send(w)
    \/ send_command(w)
    \/ close(w)
    \/ Sleep(w)

\* Spec with every started worker scheduled again and again: a thread that
\* can take a step is not held back forever, and get_screnshot, connect,
\* send and time.sleep return.
SpecFair == Spec /\ \A w \in Workers : WF_vars(WorkerStep(w))

\* The loop under the clock: the object is constructed, start() is called
\* and the worker runs its cycles while time passes; stop() is not called.
NextClock ==
    \/ Construct
    \/ Return
    \/ start
    \/ Tick
    \/ \E t \in Threads : New(t)
    \/ \E t \in Threads : InitId(t)
    \/ \E t \in Threads : send(t)
    \/ \E t \in Threads : send_command(t)
    \/ \E t \in Threads : close(t)
    \/ \E w \in Workers : Loop(w)
    \/ \E w \in Workers : GetColor(w)
    \/ \E w \in Workers : MeasureDelta(w)
    \/ \E w \in Workers : Wake(w)

SpecClock == Init /\ [][NextClock]_vars

\* convert_rgb alone: a sequence of direct calls.
NextRgb == CallConvertRgb

SpecRgb == Init /\ [][NextRgb]_vars

(* ------------------------- reading the wire --------------------------- *)

\* A reader of the JSON text as_bytes produces: objects, arrays, strings
\* without escapes and integers, separated as json.dumps separates them.

Char(s, i) == IF i >= 1 /\ i <= Len(s) THEN SubSeq(s, i, i) ELSE ""

Digits == <<"0", "1", "2", "3", "4", "5", "6", "7", "8", "9">>
IsDigit(c) == \E k \in 1..10 : Digits[k] = c
DigitValue(c) == (CHOOSE k \in 1..10 : Digits[k] = c) - 1

RECURSIVE SkipSpaces(_, _)
SkipSpaces(s, i) == IF Char(s, i) = " " THEN SkipSpaces(s, i + 1) ELSE i

RECURSIVE FindQuote(_, _)
FindQuote(s, i) ==
    IF i > Len(s) \/ Char(s, i) = "\"" THEN i ELSE FindQuote(s, i + 1)

\* The string whose opening quote is at i.
ReadString(s, i) ==
    LET j == FindQuote(s, i + 1)
    IN  [v |-> SubSeq(s, i + 1, j - 1), next |-> j + 1]

RECURSIVE ReadDigits(_, _, _)
ReadDigits(s, i, acc) ==
    IF IsDigit(Char(s, i))
    THEN ReadDigits(s, i + 1, acc * 10 + DigitValue(Char(s, i)))
    ELSE [v |-> acc, next |-> i]

\* The integer that starts at i.
ReadInt(s, i) ==
    IF Char(s, i) = "-"
    THEN LET r == ReadDigits(s, i + 1, 0) IN [v |-> 0 - r.v, next |-> r.next]
    ELSE ReadDigits(s, i, 0)

RECURSIVE ReadValue(_, _)
RECURSIVE ReadItems(_, _, _)
\* The items of an array from i on, after those in acc, up to its "]".
ReadItems(s, i, acc) ==
    LET j == SkipSpaces(s, i)
    IN  IF Char(s, j) = "]" \/ j > Len(s) THEN [v |-> acc, next |-> j + 1]
        ELSE IF Char(s, j) = "," THEN ReadItems(s, j + 1, acc)
        ELSE LET r == ReadValue(s, j)
             IN  ReadItems(s, r.next, Append(acc, r.v))

ReadValue(s, i) ==
    IF Char(s, i) = "\"" THEN ReadString(s, i)
    ELSE IF Char(s, i) = "[" THEN ReadItems(s, i + 1, <<>>)
    ELSE ReadInt(s, i)

RECURSIVE ReadMembers(_, _, _)
\* The members of an object from i on, after those in acc, up to its "}":
\* a sequence of <<key, value>>.
ReadMembers(s, i, acc) ==
    LET j == SkipSpaces(s, i)
    IN  IF Char(s, j) = "}" \/ j > Len(s) THEN [v |-> acc, next |-> j + 1]
        ELSE IF Char(s, j) = "," THEN ReadMembers(s, j + 1, acc)
        ELSE LET k == ReadString(s, j)
                 c == SkipSpaces(s, k.next)
                 r == ReadValue(s, SkipSpaces(s, c + 1))
             IN  ReadMembers(s, r.next, Append(acc, <<k.v, r.v>>))

\* The object a line of the wire protocol holds, and what follows it.
Decode(s) == ReadMembers(s, 2, <<>>)

Keys(members) == [i \in 1..Len(members) |-> members[i][1]]

(* ------------------------------ claims -------------------------------- *)

InCycle == {"sample", "new", "init", "send", "connecting", "sending"}

\* Threads that have left send_command, by return or by exception.
LeftSendCommand(t) ==
    \/ pc[t] \in {"return", "sleep", "aborted"}
    \/ pc[t] = "raised" /\ exc[t] \in {"connect", "send"}

\* The frequency-weighted sum of channel k of a colour-count list, and the
\* number of pixels it counts.
RECURSIVE WeightedSum(_, _, _)
WeightedSum(colors, k, i) ==
    IF i > Len(colors) THEN 0
    ELSE colors[i][1] * colors[i][2][k] + WeightedSum(colors, k, i + 1)

RECURSIVE PixelCount(_, _)
PixelCount(colors, i) ==
    IF i > Len(colors) THEN 0 ELSE colors[i][1] + PixelCount(colors, i + 1)

WeightedMean(colors) ==
    [k \in 1..3 |-> WeightedSum(colors, k, 1) \div PixelCount(colors, 1)]

\* C1: a send_command that raises in a cycle does not end the worker: no
\* worker is ever terminated by the exception of a failed connect or send.
C1_LoopResilience ==
    \A w \in Workers : ~(pc[w] = "raised" /\ exc[w] \in {"connect", "send"})

\* C2: once stop() has cleared the flag while a worker is inside a cycle, the
\* worker goes on through that cycle: no step takes it out of the loop by an
\* exception, and the cycle's send_command ends with the whole command
\* written and the socket closed.
C2_CooperativeStop ==
    [][\A w \in Workers :
          (~running /\ pc[w] \in InCycle) =>
              /\ pc'[w] # "raised"
              /\ (pc[w] = "sending" /\ pc'[w] = "sleep") =>
                    /\ tcp'[w].state = "closed"
                    /\ tcp'[w].sent = Len(tcp'[w].data)]_vars

\* C3: the colour reduced from a non-empty colour-count list is the
\* frequency-weighted mean per channel, floor-divided by the pixel count.
C3_WeightedMean ==
    \A w \in Workers :
        (pc[w] \in {"new", "init", "send", "connecting", "sending", "sleep"}
           /\ sample[w] # <<>>) =>
            color[w] = WeightedMean(sample[w])

\* C4: the reduction of an empty colour-count list never divides by zero: no
\* thread is ever ended by ZeroDivisionError.
C4_EmptySampleGuarded ==
    \A t \in Threads : exc[t] # "ZeroDivisionError"

\* C5: with constructions one after the other, the i-th command constructed
\* has id i - 1, and the counter is the id of the last command constructed.
C5_SequentialIds ==
    /\ \A i \in 1..Len(conns) : conns[i].cmd.id = i - 1
    /\ pc[Main] = "send" => cmd[Main].id = Len(conns)
    /\ next_id = IF pc[Main] \in {"init", "send"} THEN Len(conns)
                 ELSE Len(conns) - 1

\* C5's case: three commands constructed, of both methods.
C5_Witness ==
    /\ Len(conns) >= 3
    /\ \E i, j \in 1..Len(conns) :
          /\ conns[i].cmd.method = "bg_set_bright"
          /\ conns[j].cmd.method = "bg_set_rgb"
          /\ i > 1 /\ j > 1

\* The constructor is over (returned or raised).
CtorDone ==
    /\ pc[Main] # "boot"
    /\ ~(call = "__init__"
           /\ pc[Main] \in {"new", "init", "send", "connecting", "sending"})

\* C6: the first command handed to the lamp is the constructor's brightness
\* command with params [initial_brightness, "smooth", 500]; it is the only
\* command of the constructor; it has been written and its socket closed when
\* the constructor returns, before any worker exists; and the loop sends
\* colour commands only.
C6_InitialBrightnessFirst ==
    /\ Len(conns) >= 1 =>
          /\ conns[1].origin = "ctor"
          /\ conns[1].cmd.method = "bg_set_bright"
          /\ conns[1].cmd.params = <<initial_brightness, "smooth", 500>>
    /\ \A i \in 2..Len(conns) :
          /\ conns[i].origin # "ctor"
          /\ conns[i].origin = "loop" => conns[i].cmd.method = "bg_set_rgb"
    /\ CtorDone => Len(conns) >= 1
    /\ (pc[Main] = "return" /\ call = "__init__") =>
          /\ Len(conns) = 1
          /\ tcp[Main].state = "closed"
          /\ tcp[Main].sent >= 1
    /\ (Len(conns) >= 2 \/ \E w \in Workers : pc[w] # "unborn") =>
          CtorDone /\ pc[Main] # "aborted"

\* C6's case: constructed with 80, and a cycle has sent its colour command.
C6_Witness ==
    /\ initial_brightness = 80
    /\ \E i \in 1..Len(conns) : conns[i].origin = "loop"
    /\ \E w \in Workers : pc[w] = "sleep"

\* C7: the bytes handed to the socket are a JSON object with the keys id,
\* method, params and no other, holding the command's values, followed by
\* CRLF.
C7_EncodeRoundTrip ==
    \A t \in Threads :
        (pc[t] \in {"return", "sleep"} /\ tcp[t].data # "") =>
            LET d == Decode(tcp[t].data)
            IN  /\ Keys(d.v) = <<"id", "method", "params">>
                /\ d.v[1][2] = cmd[t].id
                /\ d.v[2][2] = cmd[t].method
                /\ d.v[3][2] = cmd[t].params
                /\ SubSeq(tcp[t].data, d.next, Len(tcp[t].data)) = "\r\n"

\* C8: whenever send_command has returned or raised, the socket it created
\* has been closed.
C8_SocketAlwaysClosed ==
    \A t \in Threads : LeftSendCommand(t) => tcp[t].state = "closed"

\* C9: when send_command returns normally, every byte of the encoded command
\* has been written.
C9_AllBytesWritten ==
    \A t \in Threads :
        (pc[t] \in {"return", "sleep"} /\ exc[t] = "none"
           /\ tcp[t].state = "closed") =>
            tcp[t].sent = Len(tcp[t].data)

\* C10: a call of start() with the flag set takes the skipped branch and
\* changes nothing else; with the flag clear it sets the flag, creates
\* exactly one worker, which has run no step of a cycle when start() has
\* returned, and changes nothing else.
C10_StartNoOpWhenRunning ==
    [][(pc[Main] = "idle" /\ pc'[Main] \in {"started", "skipped"}) =>
          /\ UNCHANGED <<next_id, cmd, sample, color, tcp, exc, conns,
                         initial_brightness, rgb_cache, now, start_time,
                         wake,
                         rgb_log>>
          /\ IF running
             THEN /\ pc'[Main] = "skipped"
                  /\ running' = TRUE
                  /\ \A w \in Workers : pc'[w] = pc[w]
             ELSE /\ pc'[Main] = "started"
                  /\ running' = TRUE
                  /\ \E w \in Workers :
                        /\ pc[w] = "unborn"
                        /\ pc'[w] = "loop"
                        /\ \A v \in Workers \ {w} : pc'[v] = pc[v]]_vars

\* C10's case: start() was called with the flag set, while a worker was in a
\* cycle, and has returned.
C10_Witness ==
    /\ pc[Main] = "skipped"
    /\ running
    /\ \E w \in Workers : pc[w] \in InCycle

\* C11: the first parameter of every brightness command handed to the lamp
\* lies in 0..100.
C11_BrightnessInRange ==
    \A i \in 1..Len(conns) :
        conns[i].cmd.method = "bg_set_bright" =>
            conns[i].cmd.params[1] \in 0..100

\* C12: the packed colour of every colour command is a 24-bit value in
\* 0..16777215 (each of which is r * 65536 + g * 256 + b for exactly one
\* choice of channels in 0..255).
C12_PackedColor24Bit ==
    \A t \in Threads :
        cmd[t].method = "bg_set_rgb" => cmd[t].params[1] \in 0..16777215

\* Whether each channel of a colour is in 0..255.
InRange(c) == \A k \in 1..3 : c[k] \in 0..255

Packed(c) == c[1] * 65536 + c[2] * 256 + c[3]

\* C13: for channels in 0..255 every call of convert_rgb returns
\* r * 65536 + g * 256 + b; two calls with the same triple return the same
\* value whatever was converted in between, whether the second is answered
\* from the cache or computed again after its entry was dropped; and the
\* cache holds at most RgbCacheMaxSize results, each key once, each the
\* packing of its key.
C13_ConvertRgbMemoized ==
    /\ \A i \in 1..Len(rgb_log) :
          /\ InRange(rgb_log[i].key) =>
                rgb_log[i].result = Packed(rgb_log[i].key)
          /\ \A j \in 1..Len(rgb_log) :
                rgb_log[i].key = rgb_log[j].key =>
                    rgb_log[i].result = rgb_log[j].result
    /\ Len(rgb_cache) <= RgbCacheMaxSize
    /\ \A i \in 1..Len(rgb_cache) :
          /\ InRange(rgb_cache[i][1]) =>
                rgb_cache[i][2] = Packed(rgb_cache[i][1])
          /\ \A j \in 1..Len(rgb_cache) :
                rgb_cache[i][1] = rgb_cache[j][1] => i = j
    /\ \A t \in Threads :
          (cmd[t].method = "bg_set_rgb" /\ InRange(color[t])) =>
              cmd[t].params[1] = Packed(color[t])

\* C13's case: the cache is full; a triple was converted again after another
\* one and answered from a cache that held other keys; and a triple whose
\* entry had been dropped from the full cache was converted again.
C13_Witness ==
    /\ Len(rgb_cache) = RgbCacheMaxSize
    /\ \E i, j, k \in 1..Len(rgb_log) :
          /\ i < j /\ j < k
          /\ rgb_log[i].key = rgb_log[k].key
          /\ rgb_log[j].key # rgb_log[i].key
          /\ InRange(rgb_log[k].key)
          /\ rgb_log[k].hit
    /\ \E i, k \in 1..Len(rgb_log) :
          /\ i < k
          /\ rgb_log[i].key = rgb_log[k].key
          /\ InRange(rgb_log[k].key)
          /\ ~rgb_log[i].hit /\ ~rgb_log[k].hit

\* C14: a constructor whose brightness command raises is left by that
\* exception, and the run ends there: the controlling thread takes no
\* further step, no worker exists, the flag is clear and the only socket
\* ever created is that of the brightness command.
C14_ConstructionFailureAborts ==
    /\ []((call = "__init__" /\ exc[Main] # "none") => pc[Main] = "aborted")
    /\ [](pc[Main] = "aborted" =>
            /\ exc[Main] \in {"connect", "send"}
            /\ ~running
            /\ \A w \in Workers : pc[w] = "unborn"
            /\ Len(conns) = 1
            /\ conns[1].cmd.method = "bg_set_bright")
    /\ [][pc[Main] = "aborted" => pc'[Main] = "aborted"]_vars

\* C14's case: the constructor's connect was refused.
C14_Witness == pc[Main] = "aborted" /\ exc[Main] = "connect"

\* C15: a worker that exists while the flag is clear leaves the loop, by
\* return or by an exception, unless the flag is set again first.
C15_StopEventuallyExits ==
    \A w \in Workers :
        (~running /\ pc[w] \notin {"unborn", "exited", "raised"})
            ~> (running \/ pc[w] \in {"exited", "raised"})

\* C15's case: the flag was cleared while a worker was in a cycle that sent
\* its command, and the worker has returned from process.
C15_Witness ==
    /\ ~running
    /\ \E w \in Workers : pc[w] = "exited"
    /\ \E i \in 1..Len(conns) : conns[i].origin = "loop"

\* The positions of a thread that is running process.
Live == {"loop", "sample", "new", "init", "send", "connecting", "sending",
         "sleep", "asleep"}

\* C16: at most one thread is running process at any time.
C16_AtMostOneWorker == Cardinality({w \in Workers : pc[w] \in Live}) <= 1

\* C17: no two sockets are handed commands with the same id.
C17_IdsNeverReused ==
    \A i, j \in 1..Len(conns) :
        conns[i].cmd.id = conns[j].cmd.id => i = j

\* C18: while the flag is set and the controlling thread is not inside
\* start(), a thread is running process.
C18_RunningImpliesWorker ==
    (running /\ pc[Main] # "started") => \E w \in Workers : pc[w] \in Live

\* C19: while the flag is clear at most one cycle is in flight, so at most
\* one more colour command is dispatched unless start() is called again.
C19_OneCycleAfterStop ==
    ~running => Cardinality({w \in Workers : pc[w] \in InCycle}) <= 1

\* C20: with one worker under the clock, a cycle begins at least
\* refresh_rate after the one before it began and takes the clock's value
\* as its own start time; a cycle that took delta < refresh_rate sleeps
\* until refresh_rate after its start, and one that took longer does not
\* sleep.
C20_RateLimit ==
    [][\A w \in Workers :
          /\ (pc[w] = "loop" /\ pc'[w] = "sample") =>
                /\ start_time'[w] = now
                /\ start_time[w] # NoTime =>
                      start_time'[w] - start_time[w] >= refresh_rate
          /\ (pc[w] = "sleep" /\ pc'[w] # "sleep") =>
                IF now - start_time[w] < refresh_rate
                THEN /\ pc'[w] = "asleep"
                     /\ wake'[w] = start_time[w] + refresh_rate
                ELSE pc'[w] = "loop"
          /\ (pc[w] = "asleep" /\ pc'[w] # "asleep") =>
                /\ pc'[w] = "loop"
                /\ now >= wake[w]]_vars

\* C20's case: a second cycle has begun after the first one slept.
C20_Witness ==
    \E w \in Workers :
        /\ pc[w] = "sample"
        /\ wake[w] # NoTime
        /\ start_time[w] >= wake[w]
        /\ \E i \in 1..Len(conns) : conns[i].origin = "loop"

\* C20's other case: a second cycle has begun after a first one that took
\* refresh_rate or longer and did not sleep.
C20_WitnessSlowCycle ==
    \E w \in Workers :
        /\ pc[w] = "sample"
        /\ wake[w] = NoTime
        /\ start_time[w] >= refresh_rate
        /\ \E i \in 1..Len(conns) : conns[i].origin = "loop"

====
